---- MODULE Spec2Model ----
(***************************************************************************)
(* Conway's game of life on a finite periodic grid (periodic_conway.py):   *)
(* class PeriodicGridConway, its compact encoding, the cycle detection of  *)
(* evolve_fully / eventual_period and the brute-force oscillator search.   *)
(***************************************************************************)
EXTENDS Integers, Sequences, FiniteSets, TLC

\* ------------------------------------------------------------------ bounds
MaxM == 3
MaxN == 4
MaxCells == 6
MaxOver == 2
MaxNeg == 2

Sizes == {s \in (1..MaxM) \X (1..MaxN) : s[1] * s[2] <= MaxCells}

VARIABLES
  m, n, cell_count,     \* self.m, self.n, self.cell_count
  grid,                 \* self.grid : cell <<i, j>> -> value
  neighbors_grid,       \* self.__neighbors_grid : cell -> list of 8 cells
  stack,                \* the methods being executed, outermost first
  prev_states,          \* evolve_fully: set of compact states seen
  curr_state,           \* the value the last to_compact() returned
  sequence,             \* evolve_fully: list of compact states visited
  func,                 \* evolve_fully: TRUE iff an observer was passed
  observed,             \* what the observer saw: compact value per call
  steps,                \* evolve_fully: evolve() calls made by this run
  compact,              \* from_compact: its argument (the loop variable
                        \* of grid_size_has_oscillator_brute)
  period,               \* eventual_period: the value returned
  result,               \* grid_size_has_oscillator_brute: value returned
  ret,                  \* the value __getitem__ / count_neighbors returned
  lastOp,               \* the last method that completed at top level
  failed,               \* TRUE iff that method raised AssertionError
  afterBruteTrue        \* the running/last call directly followed a
                        \* grid_size_has_oscillator_brute() returning True

vars == <<m, n, cell_count, grid, neighbors_grid, stack, prev_states,
          curr_state, sequence, func, observed, steps, compact, period,
          result, ret, lastOp, failed, afterBruteTrue>>

\* ------------------------------------------------------------- arithmetic
RECURSIVE Pow2(_)
Pow2(k) == IF k = 0 THEN 1 ELSE 2 * Pow2(k - 1)

Cells(mm, nn) == (0 .. mm - 1) \X (0 .. nn - 1)

Zeros(mm, nn) == [c \in Cells(mm, nn) |-> 0]

\* ----------------------------------------------------------- __init__
\* a topology that skips every coordinate that wraps onto the cell itself
NeighborsOf_noself(mm, nn, i, j) ==
  LET offs == <<  <<-1, -1>>, <<-1, 0>>, <<-1, 1>>,
                  <<0, -1>>,             <<0, 1>>,
                  <<1, -1>>,  <<1, 0>>,  <<1, 1>> >>
      all == [d \in 1 .. 8 |-> << (i + offs[d][1]) % mm, (j + offs[d][2]) % nn >>]
  IN  SelectSeq(all, LAMBDA c : c # <<i, j>>)

\* a topology whose inner loop is range(j - 1, j + 1): the column j + 1 is
\* never visited
NeighborsOf_short(mm, nn, i, j) ==
  LET offs == <<  <<-1, -1>>, <<-1, 0>>,
                  <<0, -1>>,
                  <<1, -1>>,  <<1, 0>> >>
  IN  [d \in 1 .. 5 |-> << (i + offs[d][1]) % mm, (j + offs[d][2]) % nn >>]

\* the neighbours of cell (i, j), in the order the two loops append them
NeighborsOf(mm, nn, i, j) ==
  LET offs == <<  <<-1, -1>>, <<-1, 0>>, <<-1, 1>>,
                  <<0, -1>>,             <<0, 1>>,
                  <<1, -1>>,  <<1, 0>>,  <<1, 1>> >>
  IN  [d \in 1 .. 8 |-> << (i + offs[d][1]) % mm, (j + offs[d][2]) % nn >>]

NeighborsGrid(mm, nn) ==
  [c \in Cells(mm, nn) |-> NeighborsOf(mm, nn, c[1], c[2])]

\* ------------------------------------------------------------------ keys
IntKey(k) == [kind |-> "int", elems |-> <<k>>]
TupleKey(t) == [kind |-> "tuple", elems |-> t]

\* a mapping that forgets the row of a flat index
index2key_norow(index, nn) == << 0, index % nn >>

index2key(index, nn) == << index \div nn, index % nn >>

interpret_key(key, nn) ==
  IF key.kind = "int" THEN index2key(key.elems[1], nn)
  ELSE IF Len(key.elems) = 1 THEN index2key(key.elems[1], nn)
  ELSE key.elems

Keys(mm, nn) ==
  {IntKey(k) : k \in 0 .. mm * nn - 1}
    \cup {TupleKey(<<k>>) : k \in 0 .. mm * nn - 1}
    \cup {TupleKey(c) : c \in Cells(mm, nn)}

\* ------------------------------------------------------- count_neighbors
RECURSIVE SumValues(_, _, _)
SumValues(g, coords, d) ==
  IF d > Len(coords) THEN 0 ELSE g[coords[d]] + SumValues(g, coords, d + 1)

\* a count over the distinct neighbour cells, each wrapped cell once
count_neighbors_distinct(g, nbrs, key, nn) ==
  LET cell == interpret_key(key, nn)
      coords == nbrs[cell]
  IN  Cardinality({c \in {coords[d] : d \in 1 .. Len(coords)} : g[c] = 1})

count_neighbors(g, nbrs, key, nn) ==
  LET cell == interpret_key(key, nn) IN SumValues(g, nbrs[cell], 1)

\* ---------------------------------------------------------------- evolve
\* the grid a loop that wrote the new generation in place would read at
\* flat position k: cells before k already hold their new value
evolve_cell_inplace(g, new_grid, nbrs, nn, k) ==
  LET cell == index2key(k, nn)
      seen == [c \in DOMAIN g |->
                 IF c[1] * nn + c[2] < k THEN new_grid[c] ELSE g[c]]
      n_neighbors == count_neighbors(seen, nbrs, TupleKey(cell), nn)
      alive == seen[cell] = 1
  IN  IF n_neighbors = 3 \/ (n_neighbors = 2 /\ alive)
      THEN [new_grid EXCEPT ![cell] = 1]
      ELSE new_grid

\* one pass of the body of the two loops, for cell (k div n, k mod n)
evolve_cell(g, new_grid, nbrs, nn, k) ==
  LET cell == index2key(k, nn)
      n_neighbors == count_neighbors(g, nbrs, TupleKey(cell), nn)
      alive == g[cell] = 1
  IN  IF n_neighbors = 3 \/ (n_neighbors = 2 /\ alive)
      THEN [new_grid EXCEPT ![cell] = 1]
      ELSE new_grid

RECURSIVE evolve_loop(_, _, _, _, _, _)
evolve_loop(g, new_grid, nbrs, mm, nn, k) ==
  IF k >= mm * nn THEN new_grid
  ELSE evolve_loop(g, evolve_cell(g, new_grid, nbrs, nn, k), nbrs, mm, nn, k + 1)

\* an evolve() whose new grid starts from np.ones
evolve_from_ones(g, nbrs, mm, nn) ==
  evolve_loop(g, [c \in Cells(mm, nn) |-> 1], nbrs, mm, nn, 0)

\* the value of self.grid after evolve()
evolve(g, nbrs, mm, nn) == evolve_loop(g, Zeros(mm, nn), nbrs, mm, nn, 0)

\* ------------------------------------------------------------ to_compact
\* str() of a cell value
Str(v) == IF v = 0 THEN "0" ELSE IF v = 1 THEN "1" ELSE "?"

\* int(s, 2) for a string of binary digits
RECURSIVE IntBase2(_, _, _)
IntBase2(s, k, acc) ==
  IF k > Len(s) THEN acc
  ELSE IntBase2(s, k + 1, 2 * acc + (IF s[k] = "1" THEN 1 ELSE 0))

\* a scan that runs over the columns first
to_compact_colmajor(g, mm, nn) ==
  LET str_rep == [k \in 1 .. mm * nn |-> Str(g[<<(k - 1) % mm, (k - 1) \div mm>>])]
  IN  IntBase2(str_rep, 1, 0)

to_compact(g, mm, nn) ==
  LET str_rep == [k \in 1 .. mm * nn |-> Str(g[<<(k - 1) \div nn, (k - 1) % nn>>])]
  IN  IntBase2(str_rep, 1, 0)

\* ---------------------------------------------------------- from_compact
\* the binary digits of a >= 0, most significant first
RECURSIVE Bin(_)
Bin(a) == IF a < 2 THEN <<Str(a)>> ELSE Bin(a \div 2) \o <<Str(a % 2)>>

Spaces(k) == [i \in 1 .. k |-> " "]

\* format(v, '<%db') : padded on the right
format_b_left(v, width) ==
  LET body == IF v < 0 THEN <<"-">> \o Bin(0 - v) ELSE Bin(v)
  IN  IF Len(body) >= width THEN body ELSE body \o Spaces(width - Len(body))

\* format(v, '%db' % width) : sign, binary digits, padded with spaces on
\* the left up to width (numbers are right-aligned), never truncated
format_b(v, width) ==
  LET body == IF v < 0 THEN <<"-">> \o Bin(0 - v) ELSE Bin(v)
  IN  IF Len(body) >= width THEN body ELSE Spaces(width - Len(body)) \o body

RECURSIVE from_compact_loop(_, _, _, _)
from_compact_loop(g, str_rep, nn, k) ==
  IF k >= Len(str_rep) THEN g
  ELSE from_compact_loop(
         IF str_rep[k + 1] = "1"
         THEN [g EXCEPT ![interpret_key(IntKey(k), nn)] = 1] ELSE g,
         str_rep, nn, k + 1)

\* a from_compact that clears the grid before it checks the length
from_compact_clear_first(g, v, mm, nn) ==
  LET str_rep == format_b(v, mm * nn)
  IN  IF Len(str_rep) <= mm * nn
      THEN [ok |-> TRUE, grid |-> from_compact_loop(Zeros(mm, nn), str_rep, nn, 0)]
      ELSE [ok |-> FALSE, grid |-> Zeros(mm, nn)]

\* from_compact(v) on grid g: ok = FALSE is the AssertionError
from_compact(g, v, mm, nn) ==
  LET str_rep == format_b(v, mm * nn)
  IN  IF Len(str_rep) <= mm * nn
      THEN [ok |-> TRUE, grid |-> from_compact_loop(Zeros(mm, nn), str_rep, nn, 0)]
      ELSE [ok |-> FALSE, grid |-> g]

\* ------------------------------------------------------- eventual_period
RECURSIVE scan_period_loop(_, _)
scan_period_loop(seq, p) ==
  IF seq[Len(seq) - p] = seq[Len(seq)] THEN p
  ELSE IF p >= Len(seq) - 1 THEN p
  ELSE scan_period_loop(seq, p + 1)

\* enumerate(..., 0): the count starts one too low
scan_period_from0(seq) == scan_period_loop(seq, 1) - 1

\* the whole sequence is taken for the cycle
scan_period_whole(seq) == Len(seq) - 1

\* for period, state in enumerate(reversed(sequence[:-1]), 1): break on match
scan_period(seq) == scan_period_loop(seq, 1)

\* ----------------------------------------------------------- __getitem__
\* self[key] on grid g
getitem(g, key, nn) == g[interpret_key(key, nn)]

\* ----------------------------------------------------------- __setitem__
Values == {0, 1, 2}

\* a __setitem__ that writes the cell before it checks the value
setitem_assign_first(g, key, value, nn) ==
  [ok |-> value \in {0, 1},
   grid |-> [g EXCEPT ![interpret_key(key, nn)] = value]]

\* self[key] = value on grid g: ok = FALSE is the AssertionError
setitem(g, key, value, nn) ==
  IF value \in {0, 1}
  THEN [ok |-> TRUE, grid |-> [g EXCEPT ![interpret_key(key, nn)] = value]]
  ELSE [ok |-> FALSE, grid |-> g]

\* the loop of set_neighbors over the neighbour coordinates, from the d-th;
\* the first failing assignment ends it
RECURSIVE set_neighbors_loop(_, _, _, _, _)
set_neighbors_loop(g, coords, value, nn, d) ==
  IF d > Len(coords) THEN [ok |-> TRUE, grid |-> g]
  ELSE LET r == setitem(g, TupleKey(coords[d]), value, nn)
       IN  IF r.ok THEN set_neighbors_loop(r.grid, coords, value, nn, d + 1)
           ELSE r

\* ------------------------------------------------------------------ state
\* the state after PeriodicGridConway(m, n), for a size of S
InitOver(S) ==
  /\ \E s \in S :
       /\ m = s[1]
       /\ n = s[2]
       /\ cell_count = s[1] * s[2]
       /\ grid = Zeros(s[1], s[2])
       /\ neighbors_grid = NeighborsGrid(s[1], s[2])
  /\ stack = <<>>
  /\ prev_states = {}
  /\ curr_state = 0
  /\ sequence = <<>>
  /\ func = FALSE
  /\ observed = <<>>
  /\ steps = 0
  /\ compact = 0
  /\ period = 0
  /\ ret = 0
  /\ result = "none"
  /\ lastOp = "init"
  /\ failed = FALSE
  /\ afterBruteTrue = FALSE

Init == InitOver(Sizes)

Idle == stack = <<>>

Top == stack[Len(stack)]

Pop == SubSeq(stack, 1, Len(stack) - 1)

\* the topology and the dimensions never change after __init__
Frame == UNCHANGED <<m, n, cell_count, neighbors_grid>>

\* the locals of the methods, as a new top-level call finds them
NoLocals ==
  /\ prev_states' = {}
  /\ curr_state' = 0
  /\ sequence' = <<>>
  /\ func' = FALSE
  /\ observed' = <<>>
  /\ steps' = 0
  /\ compact' = 0
  /\ period' = 0
  /\ ret' = 0
  /\ result' = "none"

\* a top-level call of a method without loops of its own that leaves grid g
Atomic(op, g, fail) ==
  /\ Idle
  /\ grid' = g
  /\ lastOp' = op
  /\ failed' = fail
  /\ afterBruteTrue' = FALSE
  /\ stack' = <<>>
  /\ NoLocals
  /\ Frame

\* ------------------------------------------------------------- operations
SetItem(key, value) ==
  \E r \in {setitem(grid, key, value, n)} : Atomic("set", r.grid, ~r.ok)

SetKey(key, value) ==
  \E r \in {setitem(grid, key, value, n)} : Atomic("set_key", r.grid, ~r.ok)

SetNeighbors(key, value) ==
  \E r \in {set_neighbors_loop(grid, neighbors_grid[interpret_key(key, n)],
                               value, n, 1)} :
    Atomic("set_neighbors", r.grid, ~r.ok)

\* a top-level call of a method that only reads the grid and returns value
Query(op, value) ==
  /\ Idle
  /\ ret' = value
  /\ lastOp' = op
  /\ failed' = FALSE
  /\ afterBruteTrue' = FALSE
  /\ stack' = <<>>
  /\ prev_states' = {}
  /\ curr_state' = 0
  /\ sequence' = <<>>
  /\ func' = FALSE
  /\ observed' = <<>>
  /\ steps' = 0
  /\ compact' = 0
  /\ period' = 0
  /\ result' = "none"
  /\ UNCHANGED grid
  /\ Frame

GetItem(key) == Query("get", getitem(grid, key, n))

CountNeighbors(key) ==
  Query("count_neighbors", count_neighbors(grid, neighbors_grid, key, n))

Evolve == Atomic("evolve", evolve(grid, neighbors_grid, m, n), FALSE)

FromCompact(v) ==
  \E r \in {from_compact(grid, v, m, n)} :
    /\ Idle
    /\ grid' = r.grid
    /\ compact' = v
    /\ lastOp' = "from_compact"
    /\ failed' = ~r.ok
    /\ afterBruteTrue' = FALSE
    /\ stack' = <<>>
    /\ prev_states' = {}
    /\ curr_state' = 0
    /\ sequence' = <<>>
    /\ func' = FALSE
    /\ observed' = <<>>
    /\ steps' = 0
    /\ period' = 0
  /\ ret' = 0
    /\ ret' = 0
    /\ result' = "none"
    /\ Frame

ToCompact ==
  /\ Idle
  /\ curr_state' = to_compact(grid, m, n)
  /\ lastOp' = "to_compact"
  /\ failed' = FALSE
  /\ afterBruteTrue' = FALSE
  /\ stack' = <<>>
  /\ prev_states' = {}
  /\ sequence' = <<>>
  /\ func' = FALSE
  /\ observed' = <<>>
  /\ steps' = 0
  /\ compact' = 0
  /\ period' = 0
  /\ ret' = 0
  /\ result' = "none"
  /\ UNCHANGED grid
  /\ Frame

\* an evolve_fully that does not show the initial grid to the observer
EnterEvolveFully_noinitial(g, f) ==
  /\ prev_states' = {}
  /\ curr_state' = to_compact(g, m, n)
  /\ sequence' = <<curr_state'>>
  /\ func' = f
  /\ observed' = <<>>
  /\ steps' = 0

\* evolve_fully up to its loop, on grid g with (f) or without an observer
EnterEvolveFully(g, f) ==
  /\ prev_states' = {}
  /\ curr_state' = to_compact(g, m, n)
  /\ sequence' = <<curr_state'>>
  /\ func' = f
  /\ observed' = IF f THEN <<curr_state'>> ELSE <<>>
  /\ steps' = 0

EvolveFullyCall(f) ==
  /\ Idle
  /\ stack' = <<"evolve_fully">>
  /\ EnterEvolveFully(grid, f)
  /\ lastOp' = "evolve_fully"
  /\ failed' = FALSE
  /\ afterBruteTrue' = FALSE
  /\ compact' = 0
  /\ period' = 0
  /\ ret' = 0
  /\ result' = "none"
  /\ UNCHANGED grid
  /\ Frame

\* a loop that forgets prev_states.add(curr_state)
EvolveFullyLoop_noadd ==
  /\ ~Idle
  /\ Top = "evolve_fully"
  /\ curr_state \notin prev_states
  /\ prev_states' = prev_states
  /\ grid' = evolve(grid, neighbors_grid, m, n)
  /\ curr_state' = to_compact(grid', m, n)
  /\ sequence' = Append(sequence, curr_state')
  /\ observed' = IF func THEN Append(observed, curr_state') ELSE observed
  /\ steps' = steps + 1
  /\ UNCHANGED <<stack, func, compact, period, result, ret, lastOp, failed,
                 afterBruteTrue>>
  /\ Frame

\* a loop that records the state after the step instead of the one before
EvolveFullyLoop_addnew ==
  /\ ~Idle
  /\ Top = "evolve_fully"
  /\ curr_state \notin prev_states
  /\ grid' = evolve(grid, neighbors_grid, m, n)
  /\ curr_state' = to_compact(grid', m, n)
  /\ prev_states' = prev_states \cup {curr_state'}
  /\ sequence' = Append(sequence, curr_state')
  /\ observed' = IF func THEN Append(observed, curr_state') ELSE observed
  /\ steps' = steps + 1
  /\ UNCHANGED <<stack, func, compact, period, result, ret, lastOp, failed,
                 afterBruteTrue>>
  /\ Frame

\* one pass of the while loop of evolve_fully
EvolveFullyLoop ==
  /\ ~Idle
  /\ Top = "evolve_fully"
  /\ curr_state \notin prev_states
  /\ prev_states' = prev_states \cup {curr_state}
  /\ grid' = evolve(grid, neighbors_grid, m, n)
  /\ curr_state' = to_compact(grid', m, n)
  /\ sequence' = Append(sequence, curr_state')
  /\ observed' = IF func THEN Append(observed, curr_state') ELSE observed
  /\ steps' = steps + 1
  /\ UNCHANGED <<stack, func, compact, period, result, ret, lastOp, failed,
                 afterBruteTrue>>
  /\ Frame

\* the while condition fails: return sequence
EvolveFullyReturn ==
  /\ ~Idle
  /\ Top = "evolve_fully"
  /\ curr_state \in prev_states
  /\ stack' = Pop
  /\ UNCHANGED <<grid, prev_states, curr_state, sequence, func, observed,
                 steps, compact, period, result, ret, lastOp, failed,
                 afterBruteTrue>>
  /\ Frame

EventualPeriodCall ==
  /\ Idle
  /\ stack' = <<"eventual_period", "evolve_fully">>
  /\ EnterEvolveFully(grid, FALSE)
  /\ lastOp' = "eventual_period"
  /\ failed' = FALSE
  /\ afterBruteTrue' = (lastOp = "brute" /\ result = "True")
  /\ compact' = 0
  /\ period' = 0
  /\ ret' = 0
  /\ result' = "none"
  /\ UNCHANGED grid
  /\ Frame

\* an eventual_period that puts the grid back to the state of the call
EventualPeriodReturn_restore ==
  /\ ~Idle
  /\ Top = "eventual_period"
  /\ period' = scan_period(sequence)
  /\ grid' = from_compact(grid, sequence[1], m, n).grid
  /\ stack' = Pop
  /\ UNCHANGED <<prev_states, curr_state, sequence, func, observed,
                 steps, compact, result, ret, lastOp, failed, afterBruteTrue>>
  /\ Frame

\* evolve_fully has returned: scan the sequence and return the period
EventualPeriodReturn ==
  /\ ~Idle
  /\ Top = "eventual_period"
  /\ period' = scan_period(sequence)
  /\ stack' = Pop
  /\ UNCHANGED <<grid, prev_states, curr_state, sequence, func, observed,
                 steps, compact, result, ret, lastOp, failed, afterBruteTrue>>
  /\ Frame

\* the test of grid_size_has_oscillator_brute on a period
is_oscillator_any(p) == p >= 1

is_oscillator_stable(p) == p = 1

is_oscillator(p) == p > 1

\* the body of the for loop of grid_size_has_oscillator_brute up to the
\* loop of evolve_fully, for loop value v
BruteDecode(v) ==
  \E r \in {from_compact(grid, v, m, n)} :
    /\ compact' = v
    /\ grid' = r.grid
    /\ IF r.ok
       THEN /\ stack' = <<"brute", "eventual_period", "evolve_fully">>
            /\ EnterEvolveFully(r.grid, FALSE)
            /\ failed' = FALSE
       ELSE /\ stack' = <<>>
            /\ failed' = TRUE
            /\ UNCHANGED <<prev_states, curr_state, sequence, func,
                           observed, steps>>

BruteCall ==
  /\ Idle
  /\ BruteDecode(0)
  /\ lastOp' = "brute"
  /\ afterBruteTrue' = FALSE
  /\ period' = 0
  /\ ret' = 0
  /\ result' = "none"
  /\ Frame

\* eventual_period returned a period > 1: return True
BruteFound ==
  /\ stack = <<"brute">>
  /\ is_oscillator(period)
  /\ result' = "True"
  /\ stack' = <<>>
  /\ UNCHANGED <<grid, prev_states, curr_state, sequence, func, observed,
                 steps, compact, period, ret, lastOp, failed, afterBruteTrue>>
  /\ Frame

\* eventual_period returned 1 and range() has a next value
BruteIter ==
  /\ stack = <<"brute">>
  /\ ~is_oscillator(period)
  /\ compact + 1 < Pow2(cell_count)
  /\ BruteDecode(compact + 1)
  /\ UNCHANGED <<period, result, ret, lastOp, afterBruteTrue>>
  /\ Frame

\* eventual_period returned 1 and range() is exhausted: return False
BruteExhausted ==
  /\ stack = <<"brute">>
  /\ ~is_oscillator(period)
  /\ compact + 1 >= Pow2(cell_count)
  /\ result' = "False"
  /\ stack' = <<>>
  /\ UNCHANGED <<grid, prev_states, curr_state, sequence, func, observed,
                 steps, compact, period, ret, lastOp, failed, afterBruteTrue>>
  /\ Frame

CompactInputs == (0 - MaxNeg) .. (Pow2(cell_count) - 1 + MaxOver)

Next ==
  \/ \E key \in Keys(m, n), value \in Values : SetItem(key, value)
  \/ \E key \in Keys(m, n), value \in Values : SetKey(key, value)
  \/ \E key \in Keys(m, n), value \in Values : SetNeighbors(key, value)
  \/ \E key \in Keys(m, n) : GetItem(key)
  \/ \E key \in Keys(m, n) : CountNeighbors(key)
  \/ Evolve
  \/ \E v \in CompactInputs : FromCompact(v)
  \/ ToCompact
  \/ \E f \in BOOLEAN : EvolveFullyCall(f)
  \/ EvolveFullyLoop
  \/ EvolveFullyReturn
  \/ EventualPeriodCall
  \/ EventualPeriodReturn
  \/ BruteCall
  \/ BruteFound
  \/ BruteIter
  \/ BruteExhausted

Spec == Init /\ [][Next]_vars

\* the simulation alone (cell writes, steps, cycle detection), on the sizes
\* of Spec and on the 3 x 3 grid
SimSizes == Sizes \cup {<<3, 3>>}

InitSim == InitOver(SimSizes)

NextSim ==
  \/ \E key \in Keys(m, n), value \in Values : SetItem(key, value)
  \/ Evolve
  \/ ToCompact
  \/ \E f \in BOOLEAN : EvolveFullyCall(f)
  \/ EvolveFullyLoop
  \/ EvolveFullyReturn
  \/ EventualPeriodCall
  \/ EventualPeriodReturn

SpecSim == InitSim /\ [][NextSim]_vars

\* ================================================================ claims
\* reference definitions, stated from the rules and not from the loops

\* the number of the 8 directions in which cell c of g has a live cell
LiveNeighbours(g, c) ==
  Cardinality({d \in ({-1, 0, 1} \X {-1, 0, 1}) \ {<<0, 0>>} :
                 g[<<(c[1] + d[1]) % m, (c[2] + d[2]) % n>>] = 1})

\* the next generation of g by the rules of Life
NextGeneration(g) ==
  [c \in DOMAIN g |->
     IF LiveNeighbours(g, c) = 3 \/ (LiveNeighbours(g, c) = 2 /\ g[c] = 1)
     THEN 1 ELSE 0]

\* sum over flat index k >= from of cell(k div n, k mod n) * 2^(m*n - 1 - k)
RECURSIVE WeightedSum(_, _)
WeightedSum(g, from) ==
  IF from >= m * n THEN 0
  ELSE g[<<from \div n, from % n>>] * Pow2(m * n - 1 - from)
         + WeightedSum(g, from + 1)

\* the grid whose weighted sum is v, for v in [0, 2^(m*n))
GridOf(v) ==
  [c \in Cells(m, n) |-> (v \div Pow2(m * n - 1 - (c[1] * n + c[2]))) % 2]

\* evolve() applied k times to g
RECURSIVE Iter(_, _)
Iter(g, k) == IF k = 0 THEN g ELSE Iter(evolve(g, neighbors_grid, m, n), k - 1)

\* a step that is one call of evolve(), at top level or inside evolve_fully
IsEvolveStep ==
  \/ Idle /\ Idle' /\ lastOp' = "evolve"
  \/ steps' = steps + 1

\* C1: evolve() replaces the grid by the synchronous next generation: every
\* cell of the new grid is 1 iff, counted on the grid before the call, it has
\* exactly 3 live neighbours or exactly 2 and was alive; no new value depends
\* on a value already written for the new generation.
C1_EvolveSynchronous ==
  [][IsEvolveStep => grid' = NextGeneration(grid)]_vars

\* a grid left by evolve() with a live and a dead cell, born from a grid in
\* which more than one generation is needed to settle
C1_Witness ==
  /\ Idle
  /\ lastOp = "evolve"
  /\ \E c \in Cells(m, n) : grid[c] = 1
  /\ \E c \in Cells(m, n) : grid[c] = 0
  /\ evolve(grid, neighbors_grid, m, n) # grid

\* C2: for every v in [0, 2^(m*n)), from_compact(v) followed by to_compact()
\* gives v, whatever the grid held before.
C2_RoundTrip ==
  (Idle /\ lastOp = "from_compact" /\ compact \in 0 .. Pow2(cell_count) - 1)
    => (~failed /\ to_compact(grid, m, n) = compact)

C2_Witness ==
  /\ Idle
  /\ lastOp = "from_compact"
  /\ ~failed
  /\ cell_count >= 3
  /\ compact = 5
  /\ to_compact(grid, m, n) = 5

\* C7: to_compact() returns the sum over flat index k of
\* cell(k div n, k mod n) * 2^(m*n - 1 - k); the all-zero grid gives 0 and the
\* all-one grid gives 2^(m*n) - 1.
C7_ToCompactValue ==
  (lastOp = "to_compact" \/ sequence # <<>>) =>
    /\ curr_state = WeightedSum(grid, 0)
    /\ (\A c \in Cells(m, n) : grid[c] = 0) => curr_state = 0
    /\ (\A c \in Cells(m, n) : grid[c] = 1) => curr_state = Pow2(m * n) - 1

\* to_compact() has returned for a grid of two rows and more whose only live
\* cell is the second of the first row
C7_Witness ==
  /\ Idle
  /\ lastOp = "to_compact"
  /\ m >= 2
  /\ n >= 3
  /\ \A c \in Cells(m, n) : grid[c] = (IF c = <<0, 1>> THEN 1 ELSE 0)
  /\ curr_state = Pow2(m * n - 2)

\* C8: for every v >= 2^(m*n), from_compact(v) fails and leaves the grid as it
\* was before the call.
C8_TooWideRejected ==
  [][(Idle /\ Idle' /\ lastOp' = "from_compact" /\ compact' >= Pow2(cell_count))
       => (failed' /\ grid' = grid)]_vars

\* a failed from_compact of too wide a value on a grid that is not all-zero
C8_Witness ==
  /\ Idle
  /\ lastOp = "from_compact"
  /\ compact >= Pow2(cell_count)
  /\ failed
  /\ \E c \in Cells(m, n) : grid[c] = 1

\* g returns to itself within the 2^(m*n) steps a cycle can take; cur is
\* evolve() applied k times to g
RECURSIVE ReturnsWithin(_, _, _)
ReturnsWithin(g, cur, k) ==
  IF cur = g THEN TRUE
  ELSE IF k >= Pow2(m * n) THEN FALSE
  ELSE ReturnsWithin(g, evolve(cur, neighbors_grid, m, n), k + 1)

\* g is an oscillator: step(g) # g and step^p(g) = g for some p > 1
OnOscillator(g) ==
  LET g1 == evolve(g, neighbors_grid, m, n)
  IN  g1 # g /\ ReturnsWithin(g, evolve(g1, neighbors_grid, m, n), 2)

\* C3: grid_size_has_oscillator_brute() returns True iff some state of the
\* size satisfies step(s) # s and step^p(s) = s for some p > 1; it returns
\* False only after the last integer of [0, 2^(m*n)) was decoded and its
\* period found to be 1.
C3_BruteIffOscillator ==
  (Idle /\ lastOp = "brute") =>
    /\ ~failed
    /\ result \in {"True", "False"}
    /\ (result = "True") <=>
         (\E v \in 0 .. Pow2(m * n) - 1 : OnOscillator(GridOf(v)))
    /\ (result = "False") => (compact = Pow2(m * n) - 1 /\ period = 1)

\* the search returned True on a size with an oscillator, after it had gone
\* through stable states first
C3_Witness ==
  /\ Idle
  /\ lastOp = "brute"
  /\ result = "True"
  /\ compact > 0

\* eventual_period has returned and its locals are those of that call
PeriodKnown == (Idle /\ lastOp = "eventual_period") \/ stack = <<"brute">>

\* C4: eventual_period() returns p with 1 <= p <= 2^(m*n), the distance from
\* the end of the sequence to the nearest earlier occurrence of its last
\* state, and p is the least k >= 1 with step^k(final) = final (p = 1 exactly
\* when the final state is a fixed point).
C4_PeriodIsCycleLength ==
  PeriodKnown =>
    LET L == Len(sequence)
        final == GridOf(sequence[L])
    IN  /\ 1 <= period
        /\ period <= Pow2(m * n)
        /\ period <= L - 1
        /\ sequence[L - period] = sequence[L]
        /\ \A q \in 1 .. period - 1 : sequence[L - q] # sequence[L]
        /\ Iter(final, period) = final
        /\ \A k \in 1 .. period - 1 : Iter(final, k) # final
        /\ (period = 1) <=> (evolve(final, neighbors_grid, m, n) = final)

\* a period > 1 returned, and a period 1 returned after a transient: both
\* are reached, this is the first
C4_Witness ==
  /\ Idle
  /\ lastOp = "eventual_period"
  /\ period = 2
  /\ Len(sequence) = 3

\* C5: evolve_fully() ends after at most 2^(m*n) + 1 applications of the
\* step, with at most 2^(m*n) + 1 entries in its sequence.
C5_EvolveFullyBounded ==
  /\ steps <= Pow2(m * n) + 1
  /\ Len(sequence) <= Pow2(m * n) + 1

\* an evolve_fully that returned after three steps
C5_Witness ==
  /\ Idle
  /\ lastOp = "evolve_fully"
  /\ steps = 3
  /\ Len(sequence) = 4

\* the shape of a sequence of evolve_fully: a chain of steps whose elements
\* before the last are pairwise distinct
ChainOfSteps(seq) ==
  /\ \A i \in 2 .. Len(seq) :
       seq[i] = WeightedSum(evolve(GridOf(seq[i - 1]), neighbors_grid, m, n), 0)
  /\ \A i, j \in 1 .. Len(seq) - 1 : i < j => seq[i] # seq[j]

\* C6: the sequence of evolve_fully() starts with the compact value of the
\* grid at the call, each later element is one step from the one before,
\* all elements but the last are pairwise distinct, and on return the last
\* equals exactly one earlier element.
C6_TrajectoryToFirstRepeat ==
  [][sequence' # <<>> =>
       /\ Len(sequence') = 1 =>
            sequence'[1] = WeightedSum(IF lastOp' = "brute" THEN grid' ELSE grid, 0)
       /\ Len(sequence') >= 2 =>
            (sequence # <<>> /\ sequence'[1] = sequence[1])
       /\ ChainOfSteps(sequence')
       /\ (stack' = <<>> \/ stack'[Len(stack')] # "evolve_fully") =>
            Cardinality({i \in 1 .. Len(sequence') - 1 :
                           sequence'[i] = sequence'[Len(sequence')]}) = 1
    ]_vars

\* an evolve_fully that returned a transient of two states before the repeat
C6_Witness ==
  /\ Idle
  /\ lastOp = "evolve_fully"
  /\ Len(sequence) = 4
  /\ sequence[3] = sequence[4]
  /\ sequence[1] # sequence[2]

\* C9: after eventual_period() returns p the grid holds the last state of
\* the sequence of that call (it is not put back to the state of the call),
\* and that state lies on a cycle of length p.
C9_GridLeftOnCycle ==
  PeriodKnown =>
    /\ WeightedSum(grid, 0) = sequence[Len(sequence)]
    /\ Iter(grid, period) = grid
    /\ \A k \in 1 .. period - 1 : Iter(grid, k) # grid

\* eventual_period returned with a grid other than that of the call
C9_Witness ==
  /\ Idle
  /\ lastOp = "eventual_period"
  /\ WeightedSum(grid, 0) # sequence[1]
  /\ WeightedSum(grid, 0) = sequence[Len(sequence)]

\* C10: when grid_size_has_oscillator_brute() returns True the grid is left
\* in an oscillator, and an eventual_period() called right after returns a
\* period greater than 1.
C10_BruteLeavesOscillator ==
  /\ (Idle /\ lastOp = "brute" /\ result = "True") => OnOscillator(grid)
  /\ (Idle /\ lastOp = "eventual_period" /\ afterBruteTrue) =>
       (period > 1 /\ OnOscillator(grid))

\* the eventual_period of the driving loop has returned
C10_Witness ==
  /\ Idle
  /\ lastOp = "eventual_period"
  /\ afterBruteTrue
  /\ period > 1

\* the value of g at the cell reached from (i, j) by direction (di, dj)
At(g, i, j, di, dj) == g[<<(i + di) % m, (j + dj) % n>>]

\* the sum of the values of g in the 8 directions around (i, j), each
\* direction once
SumOfDirections(g, i, j) ==
  At(g, i, j, -1, -1) + At(g, i, j, -1, 0) + At(g, i, j, -1, 1)
    + At(g, i, j, 0, -1) + At(g, i, j, 0, 1)
    + At(g, i, j, 1, -1) + At(g, i, j, 1, 0) + At(g, i, j, 1, 1)

\* C11: count_neighbors((i, j)) is the sum of the grid values at the 8
\* coordinates ((i+di) mod m, (j+dj) mod n), (di, dj) # (0, 0), each direction
\* counted once even when several wrap to the same cell; the live cell of a
\* 1 x 1 grid has 8 live neighbours.
C11_CountNeighbors ==
  [][(Idle /\ lastOp' = "count_neighbors") =>
       /\ \A c \in Cells(m, n) :
            CountNeighbors(TupleKey(c)) => ret' = SumOfDirections(grid, c[1], c[2])
       /\ (m = 1 /\ n = 1 /\ grid[<<0, 0>>] = 1) => ret' = 8
    ]_vars

\* count_neighbors returned 8 on the 1 x 1 grid
C11_Witness ==
  /\ Idle
  /\ lastOp = "count_neighbors"
  /\ m = 1
  /\ n = 1
  /\ grid[<<0, 0>>] = 1
  /\ ret = 8

\* three cells in a line, all alive
ThreeInLineAlive ==
  /\ <<m, n>> \in {<<3, 1>>, <<1, 3>>}
  /\ \A c \in Cells(m, n) : grid[c] = 1

\* C12 as stated: on a 3 x 1 periodic grid with its three cells alive,
\* count_neighbors returns exactly 2 for each of the three cells.
C12_AsStated ==
  (Idle /\ lastOp = "count_neighbors" /\ ThreeInLineAlive) => ret = 2

\* C12, amended: on a 3 x 1 periodic grid with its three cells alive,
\* count_neighbors returns exactly 8 for each of the three cells (the 8
\* directions reach the two other cells three times each and the cell itself
\* twice).
C12_ThreeInLineCountsEight ==
  (Idle /\ lastOp = "count_neighbors" /\ ThreeInLineAlive) => ret = 8

\* count_neighbors has returned on the 3 x 1 grid with its cells alive
C12_Witness ==
  /\ Idle
  /\ lastOp = "count_neighbors"
  /\ m = 3
  /\ n = 1
  /\ \A c \in Cells(m, n) : grid[c] = 1
  /\ ret = 8

\* the cells that appear among the precomputed neighbours of cell b
NeighbourCells(b) ==
  {neighbors_grid[b][d] : d \in 1 .. Len(neighbors_grid[b])}

\* C13: for every grid size and every pair of cells A and B, if A appears
\* among the precomputed periodic neighbours of B then B appears among those
\* of A.
C13_NeighborSymmetry ==
  \A a, b \in Cells(m, n) :
    a \in NeighbourCells(b) => b \in NeighbourCells(a)

\* a grid with a dimension below 3 and one of at least 3, on which two
\* distinct cells are neighbours of each other
C13_Witness ==
  /\ m < 3
  /\ n >= 3
  /\ <<0, n - 1>> \in NeighbourCells(<<0, 0>>)
  /\ <<0, 0>> \in NeighbourCells(<<0, n - 1>>)

\* every cell of g holds 0 or 1
CellsBinary(g) == \A c \in Cells(m, n) : g[c] \in {0, 1}

\* this step is a set, set_key or set_neighbors call with the given arguments
IsSetStep(key, value) ==
  \/ lastOp' = "set" /\ SetItem(key, value)
  \/ lastOp' = "set_key" /\ SetKey(key, value)
  \/ lastOp' = "set_neighbors" /\ SetNeighbors(key, value)

\* C14: in every state reachable by set, set_key, set_neighbors, evolve,
\* evolve_fully, from_compact and eventual_period calls every cell holds 0
\* or 1; a set (or set_neighbors) call with a value outside {0, 1} fails and
\* leaves every cell unchanged.
C14_CellsStayBinary ==
  [][/\ CellsBinary(grid)
     /\ CellsBinary(grid')
     /\ (Idle /\ lastOp' \in {"set", "set_key", "set_neighbors"}) =>
          \A key \in Keys(m, n), value \in Values \ {0, 1} :
            IsSetStep(key, value) => (failed' /\ grid' = grid)
    ]_vars

\* a set_neighbors call with a bad value has failed on a grid with a live
\* and a dead cell
C14_Witness ==
  /\ Idle
  /\ lastOp = "set_neighbors"
  /\ failed
  /\ \E c \in Cells(m, n) : grid[c] = 1
  /\ \E c \in Cells(m, n) : grid[c] = 0

\* C15: for every flat index k in [0, m*n), addressing a cell by k and by the
\* pair (k div n, k mod n) resolve to the same cell: a set through either
\* form writes that cell and no other, and a get through either form reads
\* that cell, so a set through one form is read back through the other.
C15_FlatAndPairAgree ==
  [][Idle =>
       \A k \in 0 .. m * n - 1 :
         LET c == <<k \div n, k % n>>
         IN  /\ lastOp' = "set" =>
                  \A value \in {0, 1} :
                    (SetItem(IntKey(k), value) \/ SetItem(TupleKey(c), value))
                      => (~failed' /\ grid' = [grid EXCEPT ![c] = value])
             /\ (lastOp' = "get" /\ (GetItem(IntKey(k)) \/ GetItem(TupleKey(c))))
                  => (ret' = grid[c] /\ grid' = grid)
             /\ lastOp' = "get" =>
                  \A value \in {0, 1} :
                    /\ getitem(setitem(grid, IntKey(k), value, n).grid,
                               TupleKey(c), n) = value
                    /\ getitem(setitem(grid, TupleKey(c), value, n).grid,
                               IntKey(k), n) = value
    ]_vars

\* a get has returned 1 on a grid of two rows and more whose only live cell
\* lies in the second row
C15_Witness ==
  /\ Idle
  /\ lastOp = "get"
  /\ ret = 1
  /\ m >= 2
  /\ n >= 2
  /\ \A c \in Cells(m, n) : grid[c] = (IF c = <<1, 1>> THEN 1 ELSE 0)

\* every cell of g is dead
AllDead(g) == \A c \in Cells(m, n) : g[c] = 0

\* C16: the all-dead grid is stable, on the 3 x 3 grid and on every size:
\* it is all-dead after evolve(), evolve_fully() started from it returns
\* [0, 0], and eventual_period() started from it returns 1.
C16_AllDeadStable ==
  [][/\ (IsEvolveStep /\ AllDead(grid)) => AllDead(grid')
     /\ (Idle /\ ~Idle' /\ AllDead(grid)) => sequence' = <<0>>
     /\ (Idle' /\ lastOp' \in {"evolve_fully", "eventual_period"}
           /\ sequence'[1] = 0)
          => (sequence' = <<0, 0>> /\ AllDead(grid'))
     /\ (Idle' /\ lastOp' = "eventual_period" /\ sequence'[1] = 0)
          => period' = 1
    ]_vars

\* eventual_period has returned 1 for the all-dead 3 x 3 grid
C16_Witness ==
  /\ m = 3
  /\ n = 3
  /\ Idle
  /\ lastOp = "eventual_period"
  /\ sequence = <<0, 0>>
  /\ period = 1
  /\ AllDead(grid)

\* C18: an observer given to evolve_fully() is invoked once with the initial
\* grid before any step and once after every step, in order and with nothing
\* skipped: at every point it has been invoked once more than steps were
\* made, its i-th invocation saw the i-th element of the sequence, and on
\* return the number of invocations is the length of the sequence.
C18_ObserverSeesEveryState ==
  (lastOp = "evolve_fully" /\ sequence # <<>>) =>
    IF func
    THEN /\ Len(observed) = steps + 1
         /\ Len(observed) = Len(sequence)
         /\ \A i \in 1 .. Len(observed) : observed[i] = sequence[i]
         /\ observed[Len(observed)] = WeightedSum(grid, 0)
    ELSE observed = <<>>

\* an evolve_fully with an observer has returned after three steps, the
\* last invocation seeing the repeated state
C18_Witness ==
  /\ Idle
  /\ lastOp = "evolve_fully"
  /\ func
  /\ Len(observed) = 4
  /\ observed[4] = observed[3]
  /\ observed[1] # observed[2]

\* C19: for every integer v, negative ones included, a from_compact(v) that
\* completes without failing is followed by a to_compact() that returns v.
C19_NoLossyDecode ==
  (Idle /\ lastOp = "from_compact" /\ ~failed)
    => to_compact(grid, m, n) = compact

====
